---- MODULE Spec2Model ----
(***************************************************************************)
(* Model of the teledriving control daemon tools/joystick/joystickd.py.     *)
(* One Tick step is one iteration of the `while True` loop of               *)
(* joystickd_thread (lines 46-327): poll the bus, joystick liveness, the    *)
(* no-car-data heartbeat, override detection, the re-enable gate, the       *)
(* control flags, the longitudinal and lateral commands and the status      *)
(* report.                                                                  *)
(*                                                                          *)
(* Numbers: accelerations, torques and joystick axes are in hundredths      *)
(* (accel = -1.0 is -100), speeds in hundredths of m/s (0.1 m/s is 10).     *)
(***************************************************************************)
EXTENDS Integers, Sequences, FiniteSets, TLC

VARIABLES
  loops_ago,               \* loop_count - last_joystick_update, saturated
  system_enabled,
  user_disabled,
  joystick_active,
  graceful_stop_debounce,
  CS_prev,                 \* <<>> for None, else <<fields of the last CS>>
  CP,                      \* car parameters read once at start-up
  sm,                      \* what sm.update(0) delivered on the last tick
  cc,                      \* carControl messages sent on the last tick
  ss,                      \* selfdriveState messages sent on the last tick
  raised,                  \* the last tick ended in the except clause
  since_fresh,             \* history: ticks since the last fresh valid
                           \* sample (the tick of the sample is 0), saturated
                           \* at the heartbeat period
  ticks_since_loss,        \* history: ticks after the loss tick, the joystick
                           \* inactive since (0 on the loss tick and before)
  hard_stops,              \* history: accel = -3.0 requests in those ticks
  link_up,                 \* the operator's packets reach the UDP bridge
  axes_values,             \* UdpJoystick.axes_values as <<gb, steer>>
  silence,                 \* send periods since the last packet was parsed
                           \* (time.time() - last_update_time), saturated
  joy_msg,                 \* testJoystick published by the bridge and not
                           \* yet polled by the daemon: <<>> or <<axes>>
  last_joy_time,           \* adb_bridge_server.last_joy_time: UNSET for 0,
                           \* else the age of the stored time in daemon
                           \* periods (time.time() - last_joy_time), saturated
  handler_pc,              \* position of handle_client_socket
  handler_axes,            \* axes of the command the handler has parsed
  watchdog_pc,             \* position of watchdog_thread
  watchdog_slept,          \* periods slept in time.sleep(0.1)
  joy_from,                \* history: who published joy_msg
  cmd_age,                 \* history: periods since a handler last
                           \* published a joystick command, saturated
  neutrals,                \* history: watchdog samples published since
                           \* that command, saturated
  soft_stops,              \* history kept by StopTick: accel = -1.0 requests
                           \* since the last loss edge, while the stop is
                           \* in progress (joystick inactive, system enabled)
  gap                      \* history kept by StopTick: a tick of that
                           \* countdown emitted no request

daemon_vars == <<loops_ago, system_enabled, user_disabled, joystick_active,
                 graceful_stop_debounce, CS_prev, CP, sm, cc, ss, raised,
                 since_fresh, ticks_since_loss, hard_stops>>

bridge_vars == <<link_up, axes_values, silence, joy_msg>>

adb_vars == <<last_joy_time, handler_pc, handler_axes, watchdog_pc,
              watchdog_slept, joy_from, cmd_age, neutrals>>

stop_vars == <<soft_stops, gap>>

vars == <<daemon_vars, bridge_vars, adb_vars, stop_vars>>

(***************************************************************************)
(* Program constants.                                                       *)
(***************************************************************************)
JOYSTICK_TIMEOUT == 5
GRACEFUL_STOP_LOOPS == 200
COUNTDOWN_INACTIVE == 0 - 1
GRACEFUL_ACCEL == 0 - 100
HARD_STOP_ACCEL == 0 - 300
ACCEL_GAIN == 4
AXIS_LIMIT == 100
V_EGO_MOVING == 10

\* The period, in daemon ticks, of the heartbeat wait_for_joystickd sends
\* (tools/joystick/test_scenarios.py, Ratekeeper(10) against the daemon's 100).
HEARTBEAT_TICKS == 10

(***************************************************************************)
(* Constants of the UDP bridge tools/joystick/joystick_udp.py, times in     *)
(* periods of its 100 Hz send loop.                                         *)
(***************************************************************************)
EXPO == 40                   \* EXPO = 0.4, in hundredths
DEADZONE == 3                \* 0.03
RECV_TIMEOUT == 10           \* socket timeout 0.1 s
NEUTRAL_AFTER == 100         \* axes reset after 1.0 s without a packet

(***************************************************************************)
(* Constants of the ADB bridge tools/adb_bridge_server.py, times in periods *)
(* of the daemon's 100 Hz loop.                                             *)
(***************************************************************************)
WATCHDOG_SLEEP == 10         \* time.sleep(0.1)
WATCHDOG_SILENCE == 50       \* (time.time() - last_joy_time) > 0.5
UNSET == 0 - 1               \* last_joy_time = 0

(***************************************************************************)
(* Bounds of the model.                                                     *)
(***************************************************************************)
MaxTicksSinceLoss == 201     \* ticks_since_loss saturates here
MaxHardStops == 2            \* hard_stops saturates here
MaxSilence == 102            \* silence saturates here
MaxNeutrals == 2             \* neutrals saturates here

Min(a, b) == IF a < b THEN a ELSE b

(***************************************************************************)
(* Inputs.                                                                  *)
(***************************************************************************)
CruiseTypes == {"setCruise", "resumeCruise", "mainCruise", "accelCruise"}

Button(t, p) == [type |-> t, pressed |-> p]

\* The button-event lists a snapshot may carry.
ButtonEventsDomain ==
  { <<>>,
    <<Button("decelCruise", TRUE), Button("setCruise", FALSE)>>,
    <<Button("cancel", TRUE), Button("resumeCruise", TRUE)>> }

\* Snapshots with every combination of the pedals and standstill, without
\* button event or fault, moving.
PedalSnapshots ==
  [ brakePressed : BOOLEAN, gasPressed : BOOLEAN, standstill : BOOLEAN,
    steerFaultPermanent : {FALSE}, steerFaultTemporary : {FALSE},
    buttonEvents : {<<>>}, vEgo : {11} ]

\* Snapshots carrying button events, with the brake released or pressed.
ButtonSnapshots ==
  [ brakePressed : BOOLEAN, gasPressed : {FALSE}, standstill : {FALSE},
    steerFaultPermanent : {FALSE}, steerFaultTemporary : {FALSE},
    buttonEvents : ButtonEventsDomain \ {<<>>}, vEgo : {11} ]

\* Snapshots with every combination of the steer faults and of the speed on
\* both sides of 0.1 m/s, pedals released, no button event.
FaultSnapshots ==
  [ brakePressed : {FALSE}, gasPressed : {FALSE}, standstill : {FALSE},
    steerFaultPermanent : BOOLEAN, steerFaultTemporary : BOOLEAN,
    buttonEvents : {<<>>}, vEgo : {10, 11} ]

\* The snapshot of a cruise button pressed while the gas pedal is held.
HeldGasSnapshots ==
  [ brakePressed : {FALSE}, gasPressed : {TRUE}, standstill : {FALSE},
    steerFaultPermanent : {FALSE}, steerFaultTemporary : {FALSE},
    buttonEvents : {<<Button("cancel", TRUE), Button("resumeCruise", TRUE)>>},
    vEgo : {11} ]

CarStateDomain ==
  PedalSnapshots \cup ButtonSnapshots \cup FaultSnapshots
    \cup HeldGasSnapshots

\* sm['carState'] before any message has been received, and the value the
\* model stores on a tick that does not read it.
DefaultCS ==
  [ brakePressed |-> FALSE, gasPressed |-> FALSE, standstill |-> FALSE,
    steerFaultPermanent |-> FALSE, steerFaultTemporary |-> FALSE,
    buttonEvents |-> <<>>, vEgo |-> 0 ]

NeutralAxes == <<0, 0>>

\* The axes lists a testJoystick message may carry; the short ones make
\* joystick_axes[0] or joystick_axes[1] raise IndexError.
AxesDomain ==
  { <<100, 0>>, <<150, 0 - 150>>, <<2, 50>>, <<>> }

\* sm['testJoystick'].axes on a tick that polled no new message: the axes of
\* the last message, still in the SubMaster.
StaleAxes == <<150, 0 - 150>>

(***************************************************************************)
(* Joystick activity detection, lines 77-96.                                *)
(***************************************************************************)
\* loop_count - last_joystick_update after lines 49 and 77-78.  The code only
\* compares it with JOYSTICK_TIMEOUT, so it is kept saturated.
LoopsAgo(old, fresh) ==
  IF fresh THEN 0 ELSE Min(old + 1, JOYSTICK_TIMEOUT + 1)

JoystickActive(ago) == ago <= JOYSTICK_TIMEOUT

Debounce_PastZero(prev_joy, active, old) ==
  IF prev_joy /\ ~active THEN GRACEFUL_STOP_LOOPS
  ELSE IF active /\ ~prev_joy THEN COUNTDOWN_INACTIVE
  ELSE IF ~active /\ old >= 0 THEN old - 1
  ELSE old

Debounce_OffByOne(prev_joy, active, old) ==
  IF prev_joy /\ ~active THEN GRACEFUL_STOP_LOOPS - 1
  ELSE IF active /\ ~prev_joy THEN COUNTDOWN_INACTIVE
  ELSE IF ~active /\ old > 0 THEN old - 1
  ELSE old

Debounce_NoClear(prev_joy, active, old) ==
  IF prev_joy /\ ~active THEN GRACEFUL_STOP_LOOPS
  ELSE IF ~active /\ old > 0 THEN old - 1
  ELSE old

Debounce_Rearm(prev_joy, active, old) ==
  IF prev_joy /\ ~active THEN GRACEFUL_STOP_LOOPS
  ELSE IF active /\ ~prev_joy THEN COUNTDOWN_INACTIVE
  ELSE IF ~active /\ old > 0 THEN old - 1
  ELSE IF ~active /\ old = 0 THEN GRACEFUL_STOP_LOOPS
  ELSE old

Debounce_Expires(prev_joy, active, old) ==
  IF prev_joy /\ ~active THEN GRACEFUL_STOP_LOOPS
  ELSE IF active /\ ~prev_joy THEN COUNTDOWN_INACTIVE
  ELSE IF ~active /\ old > 0 THEN old - 1
  ELSE IF ~active /\ old = 0 THEN COUNTDOWN_INACTIVE
  ELSE old

\* graceful_stop_debounce after the edge handling of lines 84-96.
Debounce(prev_joy, active, old) ==
  IF prev_joy /\ ~active THEN GRACEFUL_STOP_LOOPS
  ELSE IF active /\ ~prev_joy THEN COUNTDOWN_INACTIVE
  ELSE IF ~active /\ old > 0 THEN old - 1
  ELSE old

(***************************************************************************)
(* The no-car-data test, line 102.                                          *)
(***************************************************************************)
CarOK_AliveOnly(alive, valid) == alive

CarOK(alive, valid) == alive /\ valid

(***************************************************************************)
(* User override detection, lines 128-139.                                  *)
(***************************************************************************)
BrakeOverride_EdgeOnly(CS, prev) == CS.brakePressed /\ ~prev.brakePressed

BrakeOverride(CS, prev) ==
  CS.brakePressed /\ (~prev.brakePressed \/ ~CS.standstill)

GasOverride_Level(CS, prev) == CS.gasPressed

GasOverride(CS, prev) == CS.gasPressed /\ ~prev.gasPressed

Override(CS, prevs) ==
  /\ prevs # <<>>
  /\ BrakeOverride(CS, prevs[1]) \/ GasOverride(CS, prevs[1])

(***************************************************************************)
(* Re-enable gate, lines 143-157.                                           *)
(***************************************************************************)
Qualifying_AnyEdge(b) == b.type \in CruiseTypes

Qualifying(b) == b.type \in CruiseTypes /\ b.pressed

\* The for loop of lines 145-157 from position i on: "enable", "reject"
\* (both break out of the loop) or "none" (the loop ran to its end).
RECURSIVE CheckButtons(_, _, _)
CheckButtons(events, i, active) ==
  IF i > Len(events) THEN "none"
  ELSE IF Qualifying(events[i])
       THEN (IF ~active THEN "reject" ELSE "enable")
       ELSE CheckButtons(events, i + 1, active)

ReEnable_NoGate(disabled, CS, active) ==
  /\ disabled
  /\ Len(CS.buttonEvents) > 0
  /\ CheckButtons(CS.buttonEvents, 1, TRUE) = "enable"

ReEnable(disabled, CS, active) ==
  /\ disabled
  /\ Len(CS.buttonEvents) > 0
  /\ CheckButtons(CS.buttonEvents, 1, active) = "enable"

(***************************************************************************)
(* Control mode flags, lines 166-168.                                       *)
(***************************************************************************)
Enabled(sysEn, CS) == sysEn /\ ~CS.steerFaultPermanent
LatActive_NoEnabled(en, CS) == ~CS.steerFaultTemporary

LatActive(en, CS) == en /\ ~CS.steerFaultTemporary
LongActive_NoCapability(en, cp) == en

LongActive(en, cp) == en /\ cp.openpilotLongitudinalControl

(***************************************************************************)
(* Joystick input and the commands, lines 188-245.                          *)
(***************************************************************************)
Clip_LowerOnly(x, lo, hi) == IF x < lo THEN lo ELSE x

Clip(x, lo, hi) == IF x < lo THEN lo ELSE IF x > hi THEN hi ELSE x

JoystickAxes_IgnoresUpdated(active, updated, axes) ==
  IF active THEN axes ELSE NeutralAxes

JoystickAxes(active, updated, axes) ==
  IF active /\ updated THEN axes ELSE NeutralAxes

GracefulStop(sysEn, active, debounce) ==
  sysEn /\ ~active /\ debounce >= 0

\* joystick_axes[0] at line 214 raises IndexError on an empty list.
LongRaises(sysEn, active, debounce, longActive, axes) ==
  /\ ~GracefulStop(sysEn, active, debounce)
  /\ longActive
  /\ Len(axes) < 1

Accel_NeedsLongActive(sysEn, active, debounce, longActive, axes) ==
  IF GracefulStop(sysEn, active, debounce) /\ longActive
  THEN (IF debounce > 0 THEN GRACEFUL_ACCEL ELSE HARD_STOP_ACCEL)
  ELSE IF longActive THEN ACCEL_GAIN * Clip(axes[1], 0 - AXIS_LIMIT, AXIS_LIMIT)
  ELSE 0

Accel_NoClip(sysEn, active, debounce, longActive, axes) ==
  IF GracefulStop(sysEn, active, debounce)
  THEN (IF debounce > 0 THEN GRACEFUL_ACCEL ELSE HARD_STOP_ACCEL)
  ELSE IF longActive THEN ACCEL_GAIN * axes[1]
  ELSE 0

Accel_EarlyHardStop(sysEn, active, debounce, longActive, axes) ==
  IF GracefulStop(sysEn, active, debounce)
  THEN (IF debounce > 1 THEN GRACEFUL_ACCEL ELSE HARD_STOP_ACCEL)
  ELSE IF longActive THEN ACCEL_GAIN * Clip(axes[1], 0 - AXIS_LIMIT, AXIS_LIMIT)
  ELSE 0

Accel(sysEn, active, debounce, longActive, axes) ==
  IF GracefulStop(sysEn, active, debounce)
  THEN (IF debounce > 0 THEN GRACEFUL_ACCEL ELSE HARD_STOP_ACCEL)
  ELSE IF longActive THEN ACCEL_GAIN * Clip(axes[1], 0 - AXIS_LIMIT, AXIS_LIMIT)
  ELSE 0

LongControlState_SpeedOnly(sysEn, active, debounce, longActive, accel, vEgo) ==
  IF vEgo > V_EGO_MOVING THEN "pid" ELSE "stopping"

LongControlState(sysEn, active, debounce, longActive, accel, vEgo) ==
  IF GracefulStop(sysEn, active, debounce)
  THEN (IF vEgo > V_EGO_MOVING THEN "pid" ELSE "stopping")
  ELSE IF longActive
  THEN (IF vEgo > V_EGO_MOVING THEN "pid"
        ELSE IF accel > V_EGO_MOVING THEN "pid" ELSE "stopping")
  ELSE (IF vEgo > V_EGO_MOVING THEN "pid" ELSE "stopping")

Torque_NoClip(latActive, axes) ==
  IF latActive /\ Len(axes) >= 2 THEN axes[2] ELSE 0

Torque_NoGate(latActive, axes) ==
  IF Len(axes) >= 2 THEN Clip(axes[2], 0 - AXIS_LIMIT, AXIS_LIMIT) ELSE 0

\* Lines 238-245: an IndexError of joystick_axes[1] is caught and the torque
\* keeps its default 0.
Torque(latActive, axes) ==
  IF latActive /\ Len(axes) >= 2 THEN Clip(axes[2], 0 - AXIS_LIMIT, AXIS_LIMIT)
  ELSE 0

CarControl(sysEn, active, debounce, cp, CS, axes) ==
  LET en == Enabled(sysEn, CS)
      lat == LatActive(en, CS)
      long == LongActive(en, cp)
      accel == Accel(sysEn, active, debounce, long, axes)
  IN [ enabled |-> en, latActive |-> lat, longActive |-> long,
       accel |-> accel, torque |-> Torque(lat, axes),
       longControlState |->
         LongControlState(sysEn, active, debounce, long, accel, CS.vEgo) ]

(***************************************************************************)
(* Status reports, lines 102-117 and 275-317.                               *)
(***************************************************************************)
\* selfdriveState.state of a new message: the first enumerant of
\* OpenpilotState in the message schema.  Lines 280-310 assign the field in
\* five branches, always to disabled, and not at all in the remaining case.
DefaultOpenpilotState == "disabled"

NoCarDataStatus ==
  [ state |-> "disabled", alertText1 |-> "No Car Data",
    alertText2 |-> <<"Waiting for car connection">>,
    alertStatus |-> "normal", alertSize |-> "small",
    enabled |-> FALSE, active |-> FALSE, engageable |-> FALSE ]

\* state, alertText1, alertText2, alertStatus, alertSize of lines 280-310;
\* alertText2 of the graceful stop is kept as the text and the countdown that
\* is formatted into it.  When no branch applies the fields keep the defaults
\* of a new message.
Alert_CountdownOnly(sysEn, disabled, active, debounce, CS) ==
  IF CS.steerFaultPermanent
  THEN <<"disabled", "STEER FAULT", <<"TAKE CONTROL">>, "critical", "full">>
  ELSE IF GracefulStop(sysEn, active, debounce) /\ debounce > 0
  THEN <<"disabled", "JOYSTICK LOST - TAKE CONTROL",
         <<"Stopping in", debounce>>, "critical", "full">>
  ELSE IF ~active
  THEN <<"disabled", "No Joystick", <<"Connect joystick input">>,
         "normal", "small">>
  ELSE IF disabled
  THEN <<"disabled", "System Disabled",
         <<"Press cruise button to re-enable">>, "userPrompt", "mid">>
  ELSE <<DefaultOpenpilotState, "", <<"">>, "normal", "none">>

Alert_JoystickFirst(sysEn, disabled, active, debounce, CS) ==
  IF CS.steerFaultPermanent
  THEN <<"disabled", "STEER FAULT", <<"TAKE CONTROL">>, "critical", "full">>
  ELSE IF ~active
  THEN <<"disabled", "No Joystick", <<"Connect joystick input">>,
         "normal", "small">>
  ELSE IF GracefulStop(sysEn, active, debounce)
  THEN <<"disabled", "JOYSTICK LOST - TAKE CONTROL",
         <<"Stopping in", debounce>>, "critical", "full">>
  ELSE IF disabled
  THEN <<"disabled", "System Disabled",
         <<"Press cruise button to re-enable">>, "userPrompt", "mid">>
  ELSE <<DefaultOpenpilotState, "", <<"">>, "normal", "none">>

Alert(sysEn, disabled, active, debounce, CS) ==
  IF CS.steerFaultPermanent
  THEN <<"disabled", "STEER FAULT", <<"TAKE CONTROL">>, "critical", "full">>
  ELSE IF GracefulStop(sysEn, active, debounce)
  THEN <<"disabled", "JOYSTICK LOST - TAKE CONTROL",
         <<"Stopping in", debounce>>, "critical", "full">>
  ELSE IF ~active
  THEN <<"disabled", "No Joystick", <<"Connect joystick input">>,
         "normal", "small">>
  ELSE IF disabled
  THEN <<"disabled", "System Disabled",
         <<"Press cruise button to re-enable">>, "userPrompt", "mid">>
  ELSE <<DefaultOpenpilotState, "", <<"">>, "normal", "none">>

SelfdriveState_EngageableIsEnabled(sysEn, disabled, active, debounce, CS, ctl) ==
  LET a == Alert(sysEn, disabled, active, debounce, CS)
  IN [ state |-> a[1], alertText1 |-> a[2], alertText2 |-> a[3],
       alertStatus |-> a[4], alertSize |-> a[5],
       enabled |-> sysEn,
       active |-> (ctl.latActive \/ ctl.longActive),
       engageable |-> sysEn ]

SelfdriveState(sysEn, disabled, active, debounce, CS, ctl) ==
  LET a == Alert(sysEn, disabled, active, debounce, CS)
  IN [ state |-> a[1], alertText1 |-> a[2], alertText2 |-> a[3],
       alertStatus |-> a[4], alertSize |-> a[5],
       enabled |-> ctl.enabled,
       active |-> (ctl.latActive \/ ctl.longActive),
       engageable |-> (ctl.enabled /\ ~CS.steerFaultPermanent) ]

(***************************************************************************)
(* The state machine.                                                       *)
(***************************************************************************)
\* adb_bridge_server.py, lines 20-21 and main: last_joy_time = 0, no client
\* handler has read a line, the watchdog thread starts its first sleep.
AdbInit ==
  /\ last_joy_time = UNSET
  /\ handler_pc = "readline"
  /\ handler_axes = NeutralAxes
  /\ watchdog_pc = "sleep"
  /\ watchdog_slept = 0
  /\ joy_from = "none"
  /\ cmd_age = WATCHDOG_SILENCE + 1
  /\ neutrals = 0

DaemonInit ==
  /\ loops_ago = 0
  /\ system_enabled = FALSE
  /\ user_disabled = TRUE
  /\ joystick_active = FALSE
  /\ graceful_stop_debounce = COUNTDOWN_INACTIVE
  /\ CS_prev = <<>>
  /\ CP \in [openpilotLongitudinalControl : BOOLEAN]
  /\ sm = [ carAlive |-> FALSE, carValid |-> FALSE, carUpdated |-> FALSE,
            CS |-> DefaultCS,
            joyUpdated |-> FALSE, joyValid |-> FALSE, axes |-> NeutralAxes ]
  /\ cc = <<>>
  /\ ss = <<>>
  /\ raised = FALSE
  /\ since_fresh = HEARTBEAT_TICKS
  /\ ticks_since_loss = 0
  /\ hard_stops = 0

\* The daemon alone: whoever publishes testJoystick is the environment of
\* Tick, and the bridge's variables stay as they are.
Init ==
  /\ DaemonInit
  /\ link_up = FALSE
  /\ axes_values = NeutralAxes
  /\ silence = 0
  /\ joy_msg = <<>>
  /\ AdbInit
  /\ soft_stops = 0
  /\ gap = FALSE

UserDisabled_NoReEnable(disabled, CS, prevs, active) ==
  IF Override(CS, prevs) THEN TRUE ELSE disabled

\* user_disabled after the override step and the re-enable gate.
UserDisabled(disabled, CS, prevs, active) ==
  LET d == IF Override(CS, prevs) THEN TRUE ELSE disabled
  IN IF ReEnable(d, CS, active) THEN FALSE ELSE d

SystemEnabled_NeedsJoystick(sysEn, disabled, CS, prevs, active) ==
  LET d == IF Override(CS, prevs) THEN TRUE ELSE disabled
      e == IF Override(CS, prevs) \/ ~active THEN FALSE ELSE sysEn
  IN IF ReEnable(d, CS, active) THEN TRUE ELSE e

SystemEnabled_FaultLatches(sysEn, disabled, CS, prevs, active) ==
  LET d == IF Override(CS, prevs) THEN TRUE ELSE disabled
      e == IF Override(CS, prevs) \/ CS.steerFaultPermanent
           THEN FALSE ELSE sysEn
  IN IF ReEnable(d, CS, active) THEN TRUE ELSE e

\* system_enabled after the override step and the re-enable gate.
SystemEnabled(sysEn, disabled, CS, prevs, active) ==
  LET d == IF Override(CS, prevs) THEN TRUE ELSE disabled
      e == IF Override(CS, prevs) THEN FALSE ELSE sysEn
  IN IF ReEnable(d, CS, active) THEN TRUE ELSE e

\* One iteration of the loop on the inputs the poll delivered.
Step(carAlive, carValid, carUpdated, CS, joyUpdated, joyValid, axes) ==
  /\ sm' = [ carAlive |-> carAlive, carValid |-> carValid,
             carUpdated |-> carUpdated, CS |-> CS,
             joyUpdated |-> joyUpdated, joyValid |-> joyValid,
             axes |-> axes ]
  /\ UNCHANGED CP
  \* lines 77-96
  /\ loops_ago' = LoopsAgo(loops_ago, joyUpdated /\ joyValid)
  /\ joystick_active' = JoystickActive(loops_ago')
  /\ graceful_stop_debounce' =
       Debounce(joystick_active, joystick_active', graceful_stop_debounce)
  /\ since_fresh' = IF joyUpdated /\ joyValid THEN 0
                    ELSE Min(since_fresh + 1, HEARTBEAT_TICKS)
  /\ ticks_since_loss' =
       IF joystick_active' \/ joystick_active THEN 0
       ELSE Min(ticks_since_loss + 1, MaxTicksSinceLoss)
  /\ IF ~CarOK(carAlive, carValid)
     THEN \* lines 102-119
          /\ ss' = <<NoCarDataStatus>>
          /\ cc' = <<>>
          /\ raised' = FALSE
          /\ UNCHANGED <<system_enabled, user_disabled, CS_prev>>
     ELSE \* lines 122-157
          /\ user_disabled' =
               UserDisabled(user_disabled, CS, CS_prev, joystick_active')
          /\ system_enabled' =
               SystemEnabled(system_enabled, user_disabled, CS, CS_prev,
                             joystick_active')
          \* lines 166-247; an IndexError at line 214 ends the tick in the
          \* except clause of line 324
          /\ raised' =
               LongRaises(system_enabled', joystick_active',
                          graceful_stop_debounce',
                          LongActive(Enabled(system_enabled', CS), CP),
                          JoystickAxes(joystick_active', joyUpdated, axes))
          /\ cc' = IF raised' THEN <<>>
                   ELSE <<CarControl(system_enabled', joystick_active',
                                     graceful_stop_debounce', CP, CS,
                                     JoystickAxes(joystick_active',
                                                  joyUpdated, axes))>>
          \* lines 275-317
          /\ ss' = IF raised' THEN <<>>
                   ELSE <<SelfdriveState(system_enabled', user_disabled',
                                         joystick_active',
                                         graceful_stop_debounce', CS,
                                         cc'[1])>>
          \* line 320
          /\ CS_prev' = IF raised' THEN CS_prev
                        ELSE <<[ brakePressed |-> CS.brakePressed,
                                 gasPressed |-> CS.gasPressed ]>>
  /\ hard_stops' =
       Min((IF joystick_active' \/ joystick_active THEN 0 ELSE hard_stops)
             + (IF cc' # <<>> /\ cc'[1].accel = HARD_STOP_ACCEL
                THEN 1 ELSE 0),
           MaxHardStops)

\* sm.update(0) followed by the loop body.  The poll's results are drawn only
\* where the tick reads them: sm.valid['carState'] when carState is alive, a
\* snapshot when it is alive and valid, the axes when line 189 reads them.
\* A testJoystick message that is updated but not valid is drawn on the ticks
\* that read its axes; on a tick that stays inactive line 77 is all that
\* reads it, and the tick is the one of joyUpdated = FALSE.  On a tick inside
\* the liveness window that polled no new message the SubMaster still holds
\* the last message's axes.  A poll may also deliver no new carState while
\* the service stays alive and valid: line 122 then reads the snapshot of the
\* tick before once more.  The model records such a poll (carUpdated =
\* FALSE) for the snapshots that carry button events; for the others it is
\* the tick that draws the same snapshot again.
Tick ==
  \E carAlive \in BOOLEAN, joyUpdated \in BOOLEAN :
    \E carValid \in (IF carAlive THEN BOOLEAN ELSE {FALSE}),
       joyValid \in (IF joyUpdated
                     THEN (IF JoystickActive(LoopsAgo(loops_ago, FALSE))
                           THEN BOOLEAN ELSE {TRUE})
                     ELSE {FALSE}) :
      \E carUpdated \in (IF ~CarOK(carAlive, carValid) THEN {FALSE}
                         ELSE IF CarOK(sm.carAlive, sm.carValid)
                                   /\ sm.CS.buttonEvents # <<>>
                         THEN BOOLEAN ELSE {TRUE}) :
      \E CS \in (IF ~CarOK(carAlive, carValid) THEN {DefaultCS}
                 ELSE IF carUpdated THEN CarStateDomain ELSE {sm.CS}),
         axes \in (IF joyUpdated THEN AxesDomain
                   ELSE IF JoystickActive(LoopsAgo(loops_ago, FALSE))
                   THEN {StaleAxes} ELSE {NeutralAxes}) :
        /\ Step(carAlive, carValid, carUpdated, CS, joyUpdated, joyValid,
                axes)
        /\ UNCHANGED <<bridge_vars, adb_vars, stop_vars>>

Next == Tick

Spec == Init /\ [][Next]_vars

(***************************************************************************)
(* The UDP bridge tools/joystick/joystick_udp.py in front of the daemon.    *)
(***************************************************************************)
Abs(x) == IF x < 0 THEN 0 - x ELSE x

\* Line 77-79: values within the deadzone become 0.
Deadzone(x) == IF Abs(x) > DEADZONE THEN x ELSE 0

\* EXPO * x**3 + (1 - EXPO) * x of lines 82 and 86 on hundredths, rounded
\* towards 0.
ExpoCurve(x) ==
  LET a == Abs(x)
      y == (EXPO * a * a * a + (100 - EXPO) * 10000 * a) \div 1000000
  IN IF x < 0 THEN 0 - y ELSE y

\* Lines 72-91: <<gb, steer>> from the fields of a parsed packet.
UdpAxes(p) ==
  LET accel == ExpoCurve(Deadzone(p.right_trigger) - Deadzone(p.left_trigger))
      steer == ExpoCurve(Deadzone(p.left_stick_x))
  IN << Clip(accel, 0 - AXIS_LIMIT, AXIS_LIMIT),
        Clip(0 - steer, 0 - AXIS_LIMIT, AXIS_LIMIT) >>

\* The datagrams the operator's side sends; json_ok = FALSE is one that
\* json.loads rejects.
PacketDomain ==
  { [json_ok |-> TRUE, left_stick_x |-> 0, left_trigger |-> 0,
     right_trigger |-> 100],
    [json_ok |-> TRUE, left_stick_x |-> 50, left_trigger |-> 0,
     right_trigger |-> 2],
    [json_ok |-> TRUE, left_stick_x |-> 0 - 100, left_trigger |-> 100,
     right_trigger |-> 0],
    [json_ok |-> FALSE, left_stick_x |-> 0, left_trigger |-> 0,
     right_trigger |-> 0] }

\* The snapshots the vehicle delivers in front of the bridge: plain driving,
\* and a pressed resume button.
UdpCarStates ==
  { CS \in CarStateDomain :
      /\ ~CS.brakePressed /\ ~CS.gasPressed
      /\ ~CS.steerFaultPermanent /\ ~CS.steerFaultTemporary
      /\ CS.vEgo > V_EGO_MOVING
      /\ CS.buttonEvents \in
           { <<>>, <<Button("cancel", TRUE), Button("resumeCruise", TRUE)>> } }

BridgeInit ==
  /\ link_up = TRUE
  /\ axes_values = NeutralAxes
  /\ silence = 0
  /\ joy_msg = <<>>

\* The operator's packets stop arriving.
LinkDown ==
  /\ link_up = TRUE
  /\ link_up' = FALSE
  /\ UNCHANGED <<axes_values, silence, joy_msg, daemon_vars, adb_vars, stop_vars>>

\* UdpJoystick.update, lines 61-101: recvfrom returns a datagram.
UdpReceive ==
  /\ link_up = TRUE
  /\ \E p \in PacketDomain :
       IF p.json_ok
       THEN /\ axes_values' = UdpAxes(p)
            /\ silence' = 0
       ELSE UNCHANGED <<axes_values, silence>>
  /\ UNCHANGED <<link_up, joy_msg, daemon_vars, adb_vars, stop_vars>>

\* UdpJoystick.update, lines 103-108: recvfrom times out.
UdpTimeout ==
  /\ link_up = FALSE
  /\ silence >= RECV_TIMEOUT
  /\ axes_values' = IF silence > NEUTRAL_AFTER THEN NeutralAxes
                    ELSE axes_values
  /\ UNCHANGED <<link_up, silence, joy_msg, daemon_vars, adb_vars, stop_vars>>

\* One iteration of send_thread, lines 170-180: the current axes_values are
\* published, with or without a packet since the last iteration.
SendThread ==
  /\ joy_msg = <<>>
  /\ joy_msg' = <<axes_values>>
  /\ silence' = Min(silence + 1, MaxSilence)
  /\ UNCHANGED <<link_up, axes_values, daemon_vars, adb_vars, stop_vars>>

\* One iteration of the daemon, which runs at the rate of send_thread and so
\* polls the message of this period.
DaemonTick ==
  /\ joy_msg # <<>>
  /\ \E CS \in UdpCarStates :
       Step(TRUE, TRUE, TRUE, CS, TRUE, TRUE, joy_msg[1])
  /\ joy_msg' = <<>>
  /\ UNCHANGED <<link_up, axes_values, silence, adb_vars, stop_vars>>

InitUdp == DaemonInit /\ BridgeInit /\ AdbInit /\ soft_stops = 0 /\ gap = FALSE

NextUdp == LinkDown \/ UdpReceive \/ UdpTimeout \/ SendThread \/ DaemonTick

SpecUdp == InitUdp /\ [][NextUdp]_vars

(***************************************************************************)
(* The daemon under an observer of its carControl output that counts the    *)
(* requests of the graceful stop.  StopTick is Tick on a slice of its       *)
(* inputs (telemetry present or absent, a permanent steer fault, a brake    *)
(* override, a cruise button press, a joystick sample or none), with the    *)
(* observer's two history variables kept up to date.                        *)
(***************************************************************************)
StopCarStates ==
  UdpCarStates \cup
  { CS \in CarStateDomain :
      /\ CS.buttonEvents = <<>> /\ CS.vEgo > V_EGO_MOVING
      /\ ~CS.gasPressed /\ ~CS.standstill /\ ~CS.steerFaultTemporary
      /\ ~(CS.brakePressed /\ CS.steerFaultPermanent) }

StopTick ==
  /\ \E carOK \in BOOLEAN, joyUpdated \in BOOLEAN :
       \E CS \in (IF carOK THEN StopCarStates ELSE {DefaultCS}) :
         Step(carOK, carOK, carOK, CS, joyUpdated, joyUpdated,
              IF joyUpdated THEN <<100, 0>>
              ELSE IF JoystickActive(LoopsAgo(loops_ago, FALSE))
              THEN StaleAxes ELSE NeutralAxes)
  /\ soft_stops' =
       IF joystick_active' \/ ~system_enabled' THEN 0
       ELSE Min((IF joystick_active THEN 0 ELSE soft_stops)
                  + (IF cc' # <<>> /\ cc'[1].accel = GRACEFUL_ACCEL
                     THEN 1 ELSE 0),
                GRACEFUL_STOP_LOOPS)
  /\ gap' =
       IF joystick_active' \/ ~system_enabled' THEN FALSE
       ELSE \/ (~joystick_active /\ gap)
            \/ (graceful_stop_debounce' > 0 /\ cc' = <<>>)
  /\ UNCHANGED <<bridge_vars, adb_vars>>

InitStop == Init

NextStop == StopTick

SpecStop == InitStop /\ [][NextStop]_vars

(***************************************************************************)
(* The ADB bridge tools/adb_bridge_server.py in front of the daemon.  A     *)
(* client handler thread and the watchdog thread share last_joy_time and    *)
(* the publisher without a lock, so each statement that reads or writes     *)
(* them is a step of its own and the two threads interleave freely between  *)
(* the daemon's polls.  Time advances with the daemon's tick; an iteration  *)
(* of either thread takes less than one period, so recv_time (line 41) is   *)
(* the time of the period in which the handler stores it (age 0).  Commands *)
(* of type ping, unknown commands and undecodable lines (lines 74-98)       *)
(* change nothing that is modelled.                                         *)
(***************************************************************************)
\* axes of the joystick commands (line 50): in and out of the stick's range
AdbAxes == {<<100, 0>>, <<150, 0 - 150>>}

AdbCarStates == UdpCarStates

\* Age of a stored time one period later.
Older(age) == IF age = UNSET THEN UNSET ELSE Min(age + 1, WATCHDOG_SILENCE + 1)

\* Lines 33-50: the handler reads a line holding a joystick command, at most
\* one per period (the client sends at the daemon's rate).
HandlerReceive ==
  /\ handler_pc = "readline"
  /\ cmd_age > 0
  /\ \E axes \in AdbAxes : handler_axes' = axes
  /\ handler_pc' = "send"
  /\ UNCHANGED <<daemon_vars, bridge_vars, last_joy_time, watchdog_pc,
                 watchdog_slept, joy_from, cmd_age, neutrals>>
  /\ UNCHANGED stop_vars

\* Lines 53-58: pm.send of the command's axes.
HandlerSend ==
  /\ handler_pc = "send"
  /\ joy_msg' = <<handler_axes>>
  /\ joy_from' = "client"
  /\ cmd_age' = 0
  /\ neutrals' = 0
  /\ handler_pc' = "store"
  /\ UNCHANGED <<daemon_vars, link_up, axes_values, silence, last_joy_time,
                 handler_axes, watchdog_pc, watchdog_slept>>
  /\ UNCHANGED stop_vars

\* Line 60: last_joy_time = recv_time.
HandlerStore ==
  /\ handler_pc = "store"
  /\ last_joy_time' = 0
  /\ handler_pc' = "readline"
  /\ UNCHANGED <<daemon_vars, bridge_vars, handler_axes, watchdog_pc,
                 watchdog_slept, joy_from, cmd_age, neutrals>>
  /\ UNCHANGED stop_vars

\* The test of line 115.
SilenceDetected(t) == t # UNSET /\ t > WATCHDOG_SILENCE

\* Lines 114-115: the watchdog wakes up and tests last_joy_time.
WatchdogCheck ==
  /\ watchdog_pc = "sleep"
  /\ watchdog_slept = WATCHDOG_SLEEP
  /\ watchdog_slept' = 0
  /\ watchdog_pc' = IF SilenceDetected(last_joy_time) THEN "send"
                    ELSE "sleep"
  /\ UNCHANGED <<daemon_vars, bridge_vars, last_joy_time, handler_pc,
                 handler_axes, joy_from, cmd_age, neutrals>>
  /\ UNCHANGED stop_vars

\* Lines 117-121: pm.send of the neutral sample.
WatchdogSend ==
  /\ watchdog_pc = "send"
  /\ joy_msg' = <<NeutralAxes>>
  /\ joy_from' = "watchdog"
  /\ neutrals' = Min(neutrals + 1, MaxNeutrals)
  /\ watchdog_pc' = "reset"
  /\ UNCHANGED <<daemon_vars, link_up, axes_values, silence, last_joy_time,
                 handler_pc, handler_axes, watchdog_slept, cmd_age>>
  /\ UNCHANGED stop_vars

\* Line 122: last_joy_time = 0.
WatchdogReset ==
  /\ watchdog_pc = "reset"
  /\ last_joy_time' = UNSET
  /\ watchdog_pc' = "sleep"
  /\ UNCHANGED <<daemon_vars, bridge_vars, handler_pc, handler_axes,
                 watchdog_slept, joy_from, cmd_age, neutrals>>
  /\ UNCHANGED stop_vars

\* One iteration of the daemon and the passage of one period: the daemon
\* polls the last sample published since its previous poll, if any.  The
\* car's telemetry is alive and valid.
AdbDaemonTick ==
  /\ handler_pc = "readline"
  /\ watchdog_pc = "sleep"
  /\ watchdog_slept < WATCHDOG_SLEEP
  /\ \E CS \in AdbCarStates :
       IF joy_msg # <<>>
       THEN Step(TRUE, TRUE, TRUE, CS, TRUE, TRUE, joy_msg[1])
       ELSE Step(TRUE, TRUE, TRUE, CS, FALSE, FALSE,
                 IF JoystickActive(LoopsAgo(loops_ago, FALSE))
                 THEN sm.axes ELSE NeutralAxes)
  /\ joy_msg' = <<>>
  /\ joy_from' = "none"
  /\ watchdog_slept' = watchdog_slept + 1
  /\ last_joy_time' = Older(last_joy_time)
  /\ cmd_age' = Min(cmd_age + 1, WATCHDOG_SILENCE + 1)
  /\ UNCHANGED <<link_up, axes_values, silence, handler_pc, handler_axes,
                 watchdog_pc, neutrals>>
  /\ UNCHANGED stop_vars

InitAdb == Init

NextAdb ==
  \/ HandlerReceive \/ HandlerSend \/ HandlerStore
  \/ WatchdogCheck \/ WatchdogSend \/ WatchdogReset
  \/ AdbDaemonTick

SpecAdb == InitAdb /\ [][NextAdb]_vars

(***************************************************************************)
(* Properties.                                                              *)
(***************************************************************************)
\* The tick that led to this state had carState alive and valid.
Telemetry == sm.carAlive /\ sm.carValid

HasQualifying(events) == \E i \in 1..Len(events) : Qualifying(events[i])

\* C1: every carControl message the daemon emits has latActive => enabled
\* and longActive => enabled.
C1_ActiveImpliesEnabled ==
  \A i \in 1..Len(cc) :
    /\ cc[i].latActive => cc[i].enabled
    /\ cc[i].longActive => cc[i].enabled

C1_Witness ==
  /\ cc # <<>>
  /\ cc[1].enabled /\ cc[1].latActive /\ cc[1].longActive

\* C2: the daemon starts with system_enabled = FALSE and user_disabled = TRUE,
\* and a tick turns system_enabled to TRUE, or user_disabled to FALSE, only
\* if it read a snapshot with a pressed set/resume/main/accel-cruise button
\* event while joystick_active was TRUE on that tick.
C2_EnableOnlyByPress ==
  /\ system_enabled = FALSE
  /\ user_disabled = TRUE
  /\ [][ ((~system_enabled /\ system_enabled')
            \/ (user_disabled /\ ~user_disabled'))
         => /\ (sm'.carAlive /\ sm'.carValid)
            /\ HasQualifying(sm'.CS.buttonEvents)
            /\ joystick_active' ]_vars

C2_Witness ==
  /\ system_enabled /\ ~user_disabled
  /\ Telemetry /\ HasQualifying(sm.CS.buttonEvents) /\ joystick_active

\* C3: a tick with telemetry whose snapshot has brakePressed, is not at
\* standstill and follows a snapshot without brakePressed ends with
\* user_disabled = TRUE and emits a request with enabled = FALSE, whatever the
\* joystick activity and the rest of the snapshot.
C3_BrakeEdgeDisables ==
  [][ ( /\ (sm'.carAlive /\ sm'.carValid)
        /\ sm'.CS.brakePressed /\ ~sm'.CS.standstill
        /\ CS_prev # <<>> /\ ~CS_prev[1].brakePressed )
      => /\ user_disabled'
         /\ \A i \in 1..Len(cc') : ~cc'[i].enabled ]_vars

\* C4: after a loss edge with the system enabled, on every tick with
\* telemetry the request has accel = -1.0 while the countdown is > 0 and
\* accel = -3.0 when it is 0; the countdown is 200 minus the number of ticks
\* since the loss tick (199 on the first, 0 on the 200th), whatever longActive
\* and the axes are.
C4_GracefulThenHardStop ==
  (system_enabled /\ ~joystick_active) =>
    /\ ticks_since_loss <= GRACEFUL_STOP_LOOPS
         => graceful_stop_debounce = GRACEFUL_STOP_LOOPS - ticks_since_loss
    /\ \A i \in 1..Len(cc) :
         /\ graceful_stop_debounce > 0 => cc[i].accel = GRACEFUL_ACCEL
         /\ graceful_stop_debounce = 0 => cc[i].accel = HARD_STOP_ACCEL

C4_Witness ==
  /\ system_enabled /\ ~joystick_active
  /\ ticks_since_loss = GRACEFUL_STOP_LOOPS
  /\ cc # <<>> /\ cc[1].accel = HARD_STOP_ACCEL /\ ~cc[1].longActive

\* C5 as stated: after one loss edge accel = -3.0 is emitted on one tick only.
C5_HardStopOnce == hard_stops <= 1

\* C5, amended: once the countdown of a loss edge has reached 0, every tick
\* that emits a request while the system stays enabled and the joystick
\* inactive emits accel = -3.0, the tick the countdown reached 0 and every
\* later one.
C5_HardStopHeld ==
  ( /\ system_enabled /\ ~joystick_active
    /\ ticks_since_loss >= GRACEFUL_STOP_LOOPS )
  => /\ graceful_stop_debounce = 0
     /\ \A i \in 1..Len(cc) : cc[i].accel = HARD_STOP_ACCEL

C5_Witness ==
  /\ hard_stops = 2
  /\ ticks_since_loss > GRACEFUL_STOP_LOOPS
  /\ cc # <<>> /\ cc[1].accel = HARD_STOP_ACCEL

NoJoystickReport(r) ==
  /\ r.alertText1 = "No Joystick"
  /\ r.alertText2 = <<"Connect joystick input">>
  /\ r.alertStatus = "normal"

\* C6 as stated: after the hard-stop tick, joystick inactive, telemetry
\* present, no permanent fault, every status report is the no-joystick one.
C6_NoJoystickAfterStop ==
  ( /\ Telemetry /\ ~joystick_active
    /\ ticks_since_loss > GRACEFUL_STOP_LOOPS
    /\ ~sm.CS.steerFaultPermanent )
  => \A i \in 1..Len(ss) : NoJoystickReport(ss[i])

\* C6, amended: after the hard-stop tick, joystick inactive, telemetry
\* present, no permanent fault, the status report is still the graceful-stop
\* one (JOYSTICK LOST - TAKE CONTROL, countdown 0, critical) as long as
\* system_enabled is TRUE, and the no-joystick one when it is FALSE.
C6_StatusAfterStop ==
  ( /\ Telemetry /\ ~joystick_active
    /\ ticks_since_loss > GRACEFUL_STOP_LOOPS
    /\ ~sm.CS.steerFaultPermanent )
  => \A i \in 1..Len(ss) :
       IF system_enabled
       THEN /\ ss[i].alertText1 = "JOYSTICK LOST - TAKE CONTROL"
            /\ ss[i].alertText2 = <<"Stopping in", 0>>
            /\ ss[i].alertStatus = "critical"
       ELSE NoJoystickReport(ss[i])

C6_Witness ==
  /\ Telemetry /\ ~joystick_active /\ system_enabled
  /\ ticks_since_loss > GRACEFUL_STOP_LOOPS
  /\ ~sm.CS.steerFaultPermanent
  /\ ss # <<>> /\ ss[1].alertText1 = "JOYSTICK LOST - TAKE CONTROL"

\* C7: the countdown is 200 on the loss tick; while the joystick stays
\* inactive and the system is enabled it decreases by exactly 1 per tick
\* until it is 0, and then stays 0.
C7_CountdownMonotone ==
  [][ /\ (joystick_active /\ ~joystick_active')
         => graceful_stop_debounce' = GRACEFUL_STOP_LOOPS
      /\ (~joystick_active /\ ~joystick_active' /\ system_enabled
            /\ graceful_stop_debounce > 0)
         => graceful_stop_debounce' = graceful_stop_debounce - 1
      /\ (~joystick_active /\ ~joystick_active' /\ system_enabled
            /\ graceful_stop_debounce = 0)
         => graceful_stop_debounce' = 0 ]_vars

C7_Witness ==
  /\ ~joystick_active /\ system_enabled
  /\ graceful_stop_debounce = 0
  /\ ticks_since_loss > GRACEFUL_STOP_LOOPS

\* C8 as stated: the countdown differs from the inactive sentinel only if
\* system_enabled is TRUE and joystick_active is FALSE.
C8_CountdownOnlyWhileEnabled ==
  graceful_stop_debounce # COUNTDOWN_INACTIVE
    => (system_enabled /\ ~joystick_active)

\* C8, amended: the countdown differs from the inactive sentinel only if
\* joystick_active is FALSE; system_enabled may be TRUE or FALSE.
C8_CountdownOnlyWhileInactive ==
  graceful_stop_debounce # COUNTDOWN_INACTIVE => ~joystick_active

C8_Witness ==
  /\ graceful_stop_debounce # COUNTDOWN_INACTIVE
  /\ ~joystick_active /\ ~system_enabled

\* C9: joystick_active is TRUE exactly when a fresh valid sample arrived on
\* this tick or on one of the 5 preceding ticks, so it is FALSE on every tick
\* before the first sample.
C9_ActiveIffRecentSample ==
  joystick_active <=> (since_fresh <= JOYSTICK_TIMEOUT)

\* C10 as stated: a tick without alive and valid telemetry leaves
\* system_enabled, user_disabled and the countdown as they were.
C10_NoTelemetryFreezes ==
  [][ ~(sm'.carAlive /\ sm'.carValid)
      => UNCHANGED <<system_enabled, user_disabled,
                     graceful_stop_debounce>> ]_vars

\* C10, amended: a tick without alive and valid telemetry leaves
\* system_enabled and user_disabled as they were, but the liveness-edge
\* handling still runs on it: a loss edge sets the countdown to 200, a
\* reconnect edge to the inactive sentinel, and a countdown > 0 of an
\* inactive joystick is decremented.
C10_NoTelemetrySkipsEngagement ==
  [][ ~(sm'.carAlive /\ sm'.carValid)
      => /\ UNCHANGED <<system_enabled, user_disabled>>
         /\ (joystick_active /\ ~joystick_active')
            => graceful_stop_debounce' = GRACEFUL_STOP_LOOPS
         /\ (~joystick_active /\ joystick_active')
            => graceful_stop_debounce' = COUNTDOWN_INACTIVE
         /\ (~joystick_active /\ ~joystick_active'
               /\ graceful_stop_debounce > 0)
            => graceful_stop_debounce' = graceful_stop_debounce - 1 ]_vars

C10_Witness ==
  /\ ~Telemetry /\ ~joystick_active /\ system_enabled
  /\ graceful_stop_debounce > 0
  /\ graceful_stop_debounce < GRACEFUL_STOP_LOOPS

\* C11: every tick publishes exactly one selfdriveState; a tick with carState
\* alive and valid publishes exactly one carControl; a tick without it
\* publishes no carControl, and its selfdriveState is disabled / "No Car
\* Data" with enabled, active and engageable all false.
C11_OneStatusPerTick ==
  [][ /\ Len(ss') = 1
      /\ (sm'.carAlive /\ sm'.carValid) => Len(cc') = 1
      /\ ~(sm'.carAlive /\ sm'.carValid)
           => /\ cc' = <<>>
              /\ ss'[1].state = "disabled"
              /\ ss'[1].alertText1 = "No Car Data"
              /\ ss'[1].enabled = FALSE
              /\ ss'[1].active = FALSE
              /\ ss'[1].engageable = FALSE ]_vars

\* C12: a tick whose computation raises leaves system_enabled,
\* user_disabled, joystick_active and graceful_stop_debounce as they were
\* before the tick.
C12_RaisingTickIsNoOp ==
  [][ raised' = TRUE
        => UNCHANGED <<system_enabled, user_disabled, joystick_active,
                       graceful_stop_debounce>> ]_vars

\* C13: on a tick that reads steerFaultPermanent the emitted carControl has
\* enabled = FALSE and the selfdriveState is the critical STEER FAULT alert,
\* whatever joystick_active is; unless the same snapshot holds a pedal
\* override or a pressed cruise button, the tick leaves system_enabled and
\* user_disabled as they were; and on the tick after a fault tick that reads
\* the fault clear, with system_enabled still TRUE and no override, every
\* emitted carControl has enabled = TRUE.
C13_SteerFaultMasksOnly ==
  [][ /\ (sm'.carAlive /\ sm'.carValid /\ sm'.CS.steerFaultPermanent)
           => /\ Len(cc') = 1 /\ cc'[1].enabled = FALSE
              /\ Len(ss') = 1
              /\ ss'[1].alertText1 = "STEER FAULT"
              /\ ss'[1].alertStatus = "critical"
              /\ (~Override(sm'.CS, CS_prev)
                    /\ ~HasQualifying(sm'.CS.buttonEvents))
                   => UNCHANGED <<system_enabled, user_disabled>>
      /\ (/\ Telemetry /\ sm.CS.steerFaultPermanent
          /\ system_enabled = TRUE
          /\ sm'.carAlive /\ sm'.carValid
          /\ ~sm'.CS.steerFaultPermanent
          /\ ~Override(sm'.CS, CS_prev))
           => \A i \in 1..Len(cc') : cc'[i].enabled = TRUE ]_vars

C13_Witness ==
  /\ Telemetry /\ sm.CS.steerFaultPermanent
  /\ system_enabled /\ ~user_disabled /\ ~joystick_active
  /\ cc # <<>> /\ ~cc[1].enabled
  /\ ss # <<>> /\ ss[1].alertText1 = "STEER FAULT"

\* A pressed set/resume/main/accel-cruise event is in the list.
HasCruisePress(events) ==
  \E i \in 1..Len(events) :
    /\ events[i].pressed = TRUE
    /\ events[i].type \in
         {"setCruise", "resumeCruise", "mainCruise", "accelCruise"}

\* C14: on a tick that reads a snapshot, starting with user_disabled = TRUE:
\* a pressed cruise button read while joystick_active is FALSE leaves
\* user_disabled = TRUE and system_enabled = FALSE; read while
\* joystick_active is TRUE it ends the tick with user_disabled = FALSE and
\* system_enabled = TRUE.  A snapshot whose button events are all of other
\* types or released changes neither flag (a pedal override aside).
C14_ButtonGate ==
  [][ (sm'.carAlive /\ sm'.carValid)
        => /\ (/\ user_disabled = TRUE
               /\ HasCruisePress(sm'.CS.buttonEvents)
               /\ joystick_active' = FALSE)
                => (user_disabled' = TRUE /\ system_enabled' = FALSE)
           /\ (/\ user_disabled = TRUE
               /\ HasCruisePress(sm'.CS.buttonEvents)
               /\ joystick_active' = TRUE)
                => (user_disabled' = FALSE /\ system_enabled' = TRUE)
           /\ (/\ ~HasCruisePress(sm'.CS.buttonEvents)
               /\ ~Override(sm'.CS, CS_prev))
                => UNCHANGED <<system_enabled, user_disabled>> ]_vars

C14_Witness ==
  /\ Telemetry /\ HasCruisePress(sm.CS.buttonEvents)
  /\ ~joystick_active
  /\ user_disabled /\ ~system_enabled
  /\ since_fresh > JOYSTICK_TIMEOUT

\* C15: the selfdriveState of a tick that read a snapshot carries the alert
\* of the first condition that holds, in this order: permanent steer fault
\* (critical); graceful stop, i.e. system_enabled, joystick inactive and
\* countdown >= 0 (critical); joystick inactive (normal); user_disabled
\* (userPrompt); none of them (no alert text, normal).  A tick without a
\* snapshot carries "No Car Data" whatever the other conditions are.
C15_StatusPriority ==
  \A i \in 1..Len(ss) :
    <<ss[i].alertText1, ss[i].alertStatus>> =
      IF ~(sm.carAlive /\ sm.carValid)
      THEN <<"No Car Data", "normal">>
      ELSE IF sm.CS.steerFaultPermanent
      THEN <<"STEER FAULT", "critical">>
      ELSE IF system_enabled /\ ~joystick_active
                /\ graceful_stop_debounce >= 0
      THEN <<"JOYSTICK LOST - TAKE CONTROL", "critical">>
      ELSE IF ~joystick_active
      THEN <<"No Joystick", "normal">>
      ELSE IF user_disabled
      THEN <<"System Disabled", "userPrompt">>
      ELSE <<"", "normal">>

C15_Witness ==
  /\ Telemetry /\ sm.CS.steerFaultPermanent
  /\ system_enabled /\ ~joystick_active /\ graceful_stop_debounce > 0
  /\ ss # <<>>
  /\ ss[1].alertText1 = "STEER FAULT" /\ ss[1].alertStatus = "critical"

\* C16: on a tick that read a snapshot without permanent steer fault, with
\* joystick_active TRUE and user_disabled FALSE, the selfdriveState has
\* state = active, empty alertText1 and alertText2 and normal severity.
C16_ActiveStatus ==
  (Telemetry /\ ~sm.CS.steerFaultPermanent
     /\ joystick_active /\ ~user_disabled)
    => \A i \in 1..Len(ss) :
         /\ ss[i].state = "active"
         /\ ss[i].alertText1 = ""
         /\ ss[i].alertText2 = <<"">>
         /\ ss[i].alertStatus = "normal"

\* C17: every emitted carControl has enabled = system_enabled and no
\* permanent steer fault, latActive = enabled and no temporary steer fault,
\* longActive = enabled and CP.openpilotLongitudinalControl, system_enabled
\* being the value after the tick's override step and re-enable gate.
C17_ControlFlags ==
  \A i \in 1..Len(cc) :
    /\ cc[i].enabled = (system_enabled /\ ~sm.CS.steerFaultPermanent)
    /\ cc[i].latActive = (cc[i].enabled /\ ~sm.CS.steerFaultTemporary)
    /\ cc[i].longActive = (cc[i].enabled /\ CP.openpilotLongitudinalControl)

C17_Witness ==
  /\ cc # <<>> /\ system_enabled
  /\ sm.CS.steerFaultTemporary /\ ~sm.CS.steerFaultPermanent
  /\ CP.openpilotLongitudinalControl
  /\ cc[1].enabled /\ ~cc[1].latActive /\ cc[1].longActive

\* The axes the tick used: those of a testJoystick message updated on a tick
\* with the joystick active, neutral otherwise.
UsedAxes == IF joystick_active /\ sm.joyUpdated THEN sm.axes ELSE <<0, 0>>

\* C18 as stated: with the joystick active, axes [1.0, 0.0] and longActive,
\* accel is 4.0, and longControlState is stopping at a speed <= 0.1 m/s and
\* pid above it.
C18_StateFollowsSpeed ==
  \A i \in 1..Len(cc) :
    (joystick_active /\ UsedAxes = <<100, 0>> /\ cc[i].longActive)
      => /\ cc[i].accel = 400
         /\ cc[i].longControlState =
              (IF sm.CS.vEgo > 10 THEN "pid" ELSE "stopping")

\* C18: with the joystick active, axes [1.0, 0.0] and longActive, accel is
\* 4.0 and longControlState is pid on every tick, at any speed.
C18_FullThrottleIsPid ==
  \A i \in 1..Len(cc) :
    (joystick_active /\ UsedAxes = <<100, 0>> /\ cc[i].longActive)
      => /\ cc[i].accel = 400
         /\ cc[i].longControlState = "pid"

C18_Witness ==
  /\ cc # <<>> /\ joystick_active /\ UsedAxes = <<100, 0>>
  /\ cc[1].longActive /\ sm.CS.vEgo <= 10
  /\ cc[1].accel = 400 /\ cc[1].longControlState = "pid"

\* C19: on every emitted carControl, outside a graceful stop: with
\* longActive, accel = 4.0 * clip(axis0, -1, 1) and longControlState is pid
\* iff speed > 0.1 or accel > 0.1, else stopping; without longActive, accel
\* = 0.0 and longControlState is pid iff speed > 0.1.  During a graceful stop
\* (system_enabled, joystick inactive, countdown >= 0) longControlState is
\* pid iff speed > 0.1.
C19_Longitudinal ==
  \A i \in 1..Len(cc) :
    IF system_enabled /\ ~joystick_active /\ graceful_stop_debounce >= 0
    THEN cc[i].longControlState =
           (IF sm.CS.vEgo > 10 THEN "pid" ELSE "stopping")
    ELSE IF cc[i].longActive
    THEN /\ cc[i].accel = 4 * Clip(UsedAxes[1], 0 - 100, 100)
         /\ cc[i].longControlState =
              (IF sm.CS.vEgo > 10 \/ cc[i].accel > 10
               THEN "pid" ELSE "stopping")
    ELSE /\ cc[i].accel = 0
         /\ cc[i].longControlState =
              (IF sm.CS.vEgo > 10 THEN "pid" ELSE "stopping")

C19_Witness ==
  /\ cc # <<>> /\ joystick_active /\ cc[1].longActive
  /\ UsedAxes = <<2, 50>> /\ sm.CS.vEgo = 10
  /\ cc[1].accel = 8 /\ cc[1].longControlState = "stopping"

\* C20: on every emitted carControl, with latActive the torque is
\* clip(axis1, -1, 1) of the axes the tick used, and without latActive it
\* is 0; an axes list without a second element also gives 0.
C20_Lateral ==
  \A i \in 1..Len(cc) :
    /\ (cc[i].latActive /\ Len(UsedAxes) >= 2)
         => cc[i].torque =
              (IF UsedAxes[2] < 0 - 100 THEN 0 - 100
               ELSE IF UsedAxes[2] > 100 THEN 100 ELSE UsedAxes[2])
    /\ ~cc[i].latActive => cc[i].torque = 0
    /\ Len(UsedAxes) < 2 => cc[i].torque = 0

C20_Witness ==
  /\ cc # <<>> /\ cc[1].latActive
  /\ UsedAxes = <<150, 0 - 150>>
  /\ cc[1].torque = 0 - 100

\* system_enabled, user_disabled, joystick_active and the countdown.
EngagementState ==
  <<system_enabled, user_disabled, joystick_active, graceful_stop_debounce>>

\* C21: a tick that is fed the snapshot and the fresh valid joystick sample
\* the tick before it was fed leaves system_enabled, user_disabled,
\* joystick_active and the countdown as that tick left them.
C21_Stability ==
  [][ (/\ sm' = sm
       /\ sm.carAlive /\ sm.carValid
       /\ sm.joyUpdated /\ sm.joyValid)
        => EngagementState' = EngagementState ]_vars

\* C22: every selfdriveState of a tick that read a snapshot has enabled =
\* carControl.enabled, active = latActive or longActive, and engageable =
\* enabled and no permanent steer fault; the one of a tick without snapshot
\* has all three FALSE; so engageable is TRUE only with a snapshot read,
\* system_enabled TRUE and no permanent steer fault.
C22_StatusFlags ==
  \A i \in 1..Len(ss) :
    /\ (sm.carAlive /\ sm.carValid)
         => /\ Len(cc) = 1
            /\ ss[i].enabled = cc[1].enabled
            /\ ss[i].active = (cc[1].latActive \/ cc[1].longActive)
            /\ ss[i].engageable =
                 (cc[1].enabled /\ ~sm.CS.steerFaultPermanent)
    /\ ~(sm.carAlive /\ sm.carValid)
         => (~ss[i].enabled /\ ~ss[i].active /\ ~ss[i].engageable)
    /\ ss[i].engageable
         => /\ sm.carAlive /\ sm.carValid
            /\ system_enabled
            /\ ~sm.CS.steerFaultPermanent

C22_Witness ==
  /\ ss # <<>> /\ ss[1].engageable /\ ss[1].enabled /\ ~ss[1].active
  /\ Telemetry /\ system_enabled
  /\ sm.CS.steerFaultTemporary /\ ~CP.openpilotLongitudinalControl

\* C23: after every tick the countdown is the inactive sentinel or an
\* integer in 0..200; a tick leaves it at 200 only if joystick_active went
\* from TRUE to FALSE on that tick; and from 0 it goes nowhere but to the
\* sentinel, so it is not re-armed without a new loss edge.
C23_CountdownRange ==
  [][ /\ graceful_stop_debounce' \in
           {COUNTDOWN_INACTIVE} \cup (0..GRACEFUL_STOP_LOOPS)
      /\ graceful_stop_debounce' = GRACEFUL_STOP_LOOPS
           => (joystick_active = TRUE /\ joystick_active' = FALSE)
      /\ graceful_stop_debounce = 0
           => graceful_stop_debounce' \in {0, COUNTDOWN_INACTIVE} ]_vars

C23_Witness ==
  /\ graceful_stop_debounce = 0
  /\ ~joystick_active /\ ~system_enabled
  /\ ticks_since_loss = MaxTicksSinceLoss

\* C24: once the operator's packets have stopped for longer than the model
\* measures (more than a second of send periods), an engaged daemon that has
\* polled since has joystick_active FALSE and the countdown started.
C24_LinkLossDetected ==
  (/\ link_up = FALSE /\ silence = MaxSilence
   /\ joy_msg = <<>>
   /\ system_enabled)
    => (~joystick_active /\ graceful_stop_debounce >= 0)

\* C25: a tick that reads gasPressed with the previous processed snapshot
\* (CS_prev) also having gasPressed, and no brake override, does not disable:
\* system_enabled stays TRUE if it was, user_disabled stays FALSE if it was;
\* so a system enabled while the pedal is held stays enabled while it is held.
C25_GasEdgeOnly ==
  [][ (/\ sm'.carAlive /\ sm'.carValid
       /\ CS_prev # <<>>
       /\ CS_prev[1].gasPressed /\ sm'.CS.gasPressed
       /\ ~(sm'.CS.brakePressed
              /\ (~CS_prev[1].brakePressed \/ ~sm'.CS.standstill)))
        => /\ (system_enabled = TRUE) => (system_enabled' = TRUE)
           /\ (user_disabled = FALSE) => (user_disabled' = FALSE) ]_vars

C25_Witness ==
  /\ Telemetry /\ sm.CS.gasPressed /\ ~sm.CS.brakePressed
  /\ sm.CS.buttonEvents = <<>>
  /\ CS_prev # <<>> /\ CS_prev[1].gasPressed
  /\ system_enabled /\ ~user_disabled
  /\ cc # <<>> /\ cc[1].enabled

\* C26: on a tick that reads a snapshot, a previous snapshot having been
\* processed (CS_prev set): brakePressed without standstill and without a
\* pressed cruise button ends the tick with system_enabled = FALSE and the
\* emitted carControl has enabled = FALSE; brakePressed at standstill with
\* the brake pressed in the previous snapshot too (no gas edge, no pressed
\* cruise button) changes neither system_enabled nor user_disabled.
C26_BrakeLevelWhileMoving ==
  [][ (sm'.carAlive /\ sm'.carValid /\ CS_prev # <<>>)
        => /\ (/\ sm'.CS.brakePressed /\ ~sm'.CS.standstill
               /\ ~HasCruisePress(sm'.CS.buttonEvents))
                => /\ system_enabled' = FALSE
                   /\ Len(cc') = 1
                   /\ cc'[1].enabled = FALSE
           /\ (/\ sm'.CS.brakePressed /\ sm'.CS.standstill
               /\ CS_prev[1].brakePressed
               /\ ~(sm'.CS.gasPressed /\ ~CS_prev[1].gasPressed)
               /\ ~HasCruisePress(sm'.CS.buttonEvents))
                => UNCHANGED <<system_enabled, user_disabled>> ]_vars

C26_Witness ==
  /\ Telemetry /\ sm.CS.brakePressed /\ ~sm.CS.standstill
  /\ ~HasCruisePress(sm.CS.buttonEvents)
  /\ joystick_active
  /\ ~system_enabled /\ user_disabled
  /\ cc # <<>> /\ ~cc[1].enabled

\* C27: a tick on which joystick_active changes, and which reads neither a
\* pedal override nor a pressed cruise button, leaves system_enabled and
\* user_disabled as they were; on the tick the joystick becomes active again
\* the countdown is cleared, and with system_enabled still TRUE the emitted
\* carControl is the joystick-driven one: enabled unless a permanent steer
\* fault is read, and with longActive accel = 4.0 * clip(axis0, -1, 1).
C27_LossAndReconnectKeepFlags ==
  [][ /\ (/\ joystick_active' # joystick_active
          /\ ~(/\ sm'.carAlive /\ sm'.carValid
               /\ (\/ Override(sm'.CS, CS_prev)
                   \/ HasCruisePress(sm'.CS.buttonEvents))))
           => UNCHANGED <<system_enabled, user_disabled>>
      /\ (joystick_active = FALSE /\ joystick_active' = TRUE)
           => /\ graceful_stop_debounce' = COUNTDOWN_INACTIVE
              /\ \A i \in 1..Len(cc') :
                   system_enabled' = TRUE
                     => /\ cc'[i].enabled = ~sm'.CS.steerFaultPermanent
                        /\ cc'[i].longActive
                             => cc'[i].accel =
                                  4 * Clip((IF sm'.joyUpdated THEN sm'.axes
                                            ELSE <<0, 0>>)[1], 0 - 100, 100)
    ]_vars

C27_Witness ==
  /\ ~joystick_active /\ system_enabled /\ ~user_disabled
  /\ graceful_stop_debounce = 0 /\ hard_stops >= 1
  /\ Telemetry /\ cc # <<>> /\ cc[1].enabled

\* C28: on every emitted carControl the axes in use are those of the polled
\* testJoystick message only if joystick_active is TRUE and the message was
\* updated on this tick; on any other tick, the ticks of the liveness window
\* without a new message included, they are neutral: torque is 0 and,
\* outside a graceful stop, accel is 0.
C28_AxesOnlyWhenUpdated ==
  \A i \in 1..Len(cc) :
    IF joystick_active /\ sm.joyUpdated
    THEN /\ (cc[i].latActive /\ Len(sm.axes) >= 2)
              => cc[i].torque = Clip(sm.axes[2], 0 - 100, 100)
         /\ cc[i].longActive
              => cc[i].accel = 4 * Clip(sm.axes[1], 0 - 100, 100)
    ELSE /\ cc[i].torque = 0
         /\ ~(system_enabled /\ ~joystick_active
                /\ graceful_stop_debounce >= 0)
              => cc[i].accel = 0

C28_Witness ==
  /\ joystick_active /\ ~sm.joyUpdated /\ sm.axes = <<150, 0 - 150>>
  /\ cc # <<>> /\ cc[1].latActive /\ cc[1].longActive
  /\ cc[1].accel = 0 /\ cc[1].torque = 0

\* C29: a tick whose poll delivered no new carState, and so reads the
\* snapshot of the tick before again, does not enable: it turns neither
\* system_enabled to TRUE nor user_disabled to FALSE.
C29_OnlyNewButtonEvents ==
  [][ (sm'.carAlive /\ sm'.carValid /\ sm'.carUpdated = FALSE)
        => /\ (system_enabled' = TRUE) => (system_enabled = TRUE)
           /\ (user_disabled' = FALSE) => (user_disabled = FALSE) ]_vars

\* C30: with a fresh valid sample at most 9 ticks back (one every 10 ticks),
\* a tick that reads a snapshot with a pressed cruise button, no permanent
\* steer fault and no pedal override ends with system_enabled = TRUE, and the
\* selfdriveState it publishes has engageable = TRUE.
C30_PressUnderHeartbeat ==
  [][ (/\ sm'.carAlive /\ sm'.carValid
       /\ since_fresh' < HEARTBEAT_TICKS
       /\ HasCruisePress(sm'.CS.buttonEvents)
       /\ ~sm'.CS.steerFaultPermanent
       /\ ~Override(sm'.CS, CS_prev))
        => /\ system_enabled' = TRUE
           /\ \A i \in 1..Len(ss') : ss'[i].engageable = TRUE ]_vars

(***************************************************************************)
(* C31.  When the commands through the ADB bridge stop while the daemon is  *)
(* engaged, the graceful-stop countdown runs uninterrupted down to 0 unless *)
(* the operator's commands resume: a running countdown is cleared only by   *)
(* a tick that polls a sample a client handler published, never by one the  *)
(* bridge's watchdog published.                                             *)
(***************************************************************************)
C31_CountdownUninterrupted ==
  [][ (/\ graceful_stop_debounce >= 0
       /\ graceful_stop_debounce' = COUNTDOWN_INACTIVE)
      => joy_from = "client" ]_vars

(***************************************************************************)
(* C32.  The watchdog publishes its neutral sample only when no client      *)
(* handler has published a joystick command during the preceding 0.5 s, and *)
(* at most once per silence period (once since the last such command),      *)
(* under every interleaving of the watchdog with a client handler.          *)
(***************************************************************************)
C32_WatchdogOncePerSilence ==
  [][ (watchdog_pc = "send" /\ watchdog_pc' = "reset")
        => /\ cmd_age > WATCHDOG_SILENCE
           /\ neutrals' = 1 ]_vars

\* C33: in every reachable state system_enabled is TRUE exactly when
\* user_disabled is FALSE.
C33_EnabledIffNotDisabled == system_enabled <=> ~user_disabled

C33_Witness ==
  /\ system_enabled /\ ~user_disabled
  /\ ss # <<>> /\ ss[1].enabled
  /\ CS_prev # <<>>

\* C34: after every tick, joystick_active is TRUE exactly when the countdown
\* is the inactive sentinel -1: with the joystick inactive the countdown is
\* in 0..200, with the joystick active it is -1.
C34_ActiveIffSentinel ==
  [][ /\ joystick_active' <=> (graceful_stop_debounce' = 0 - 1)
      /\ ~joystick_active' => graceful_stop_debounce' \in 0..200 ]_vars

C34_Witness ==
  /\ ~joystick_active /\ graceful_stop_debounce = 0
  /\ cc # <<>> /\ cc[1].accel = 0 - 300

\* C35: on every tick that precedes the first fresh valid joystick sample,
\* system_enabled is FALSE, whatever buttons the snapshots carry.  Before the
\* first sample loops_ago counts the ticks made so far while since_fresh
\* still has its initial value (a sample resets both to 0, and from then on
\* loops_ago <= 5 implies since_fresh <= 5), so loops_ago <= 5 with
\* since_fresh at its initial value says: at most 5 ticks made, no sample yet.
C35_NoEnableBeforeFirstSample ==
  (loops_ago <= JOYSTICK_TIMEOUT /\ since_fresh = HEARTBEAT_TICKS)
    => ~system_enabled

\* C36: no positive acceleration and no steering torque without live
\* joystick input.  On every emitted actuation request: with the joystick
\* inactive accel <= 0 and torque = 0; and accel > 0 only on a request that
\* is enabled and longActive, with the joystick active and a joystick
\* message updated on this tick.
C36_NoThrustWithoutJoystick ==
  \A i \in 1..Len(cc) :
    /\ ~joystick_active => (cc[i].accel <= 0 /\ cc[i].torque = 0)
    /\ cc[i].accel > 0 => /\ cc[i].enabled /\ cc[i].longActive
                          /\ joystick_active /\ sm.joyUpdated

C36_Witness ==
  /\ cc # <<>> /\ cc[1].accel > 0 /\ cc[1].torque # 0
  /\ joystick_active /\ sm.joyUpdated /\ ~sm.joyValid

\* C37 as stated: whenever an emitted actuation request has enabled = FALSE,
\* its accel is 0.0 and its torque is 0.0.
C37_DisabledIsNeutral ==
  \A i \in 1..Len(cc) :
    ~cc[i].enabled => (cc[i].accel = 0 /\ cc[i].torque = 0)

\* C37, amended: an emitted actuation request with enabled = FALSE has torque
\* 0.0, and accel 0.0 unless the graceful stop is in force (system_enabled,
\* joystick inactive, countdown >= 0), where it carries the braking command:
\* -1.0 while the countdown is > 0 and -3.0 at 0.
C37_DisabledCarriesOnlyGracefulStop ==
  \A i \in 1..Len(cc) :
    ~cc[i].enabled =>
      /\ cc[i].torque = 0
      /\ cc[i].accel =
           (IF system_enabled /\ ~joystick_active
                 /\ graceful_stop_debounce >= 0
            THEN (IF graceful_stop_debounce > 0 THEN 0 - 100 ELSE 0 - 300)
            ELSE 0)

C37_Witness ==
  /\ cc # <<>> /\ ~cc[1].enabled /\ cc[1].accel = 0 - 100
  /\ system_enabled /\ sm.CS.steerFaultPermanent

\* C38 as stated: the first actuation request with accel = -3.0 after a
\* joystick-loss edge is emitted only after 200 requests with accel = -1.0
\* have been emitted since that edge, whatever the telemetry, faults and
\* overrides were.
C38_HardStopAfter200Requests ==
  (cc # <<>> /\ cc[1].accel = 0 - 300 /\ hard_stops = 1)
    => soft_stops = 200

\* C38, amended: the first request with accel = -3.0 after a loss edge is
\* emitted no earlier than the 200th tick after the edge, and the requests
\* with accel = -1.0 emitted since the edge are 200 exactly when every tick
\* of the countdown emitted a request, fewer otherwise.
C38_HardStopAfter200Ticks ==
  (cc # <<>> /\ cc[1].accel = 0 - 300 /\ hard_stops = 1)
    => /\ ticks_since_loss >= 200
       /\ soft_stops <= 200
       /\ (soft_stops = 200) <=> ~gap

C38_Witness ==
  /\ cc # <<>> /\ cc[1].accel = 0 - 300 /\ hard_stops = 1
  /\ gap /\ soft_stops < 200

====
